---- MODULE Spec2Model ----
(***************************************************************************)
(* Model of chapter_to_slides.py: the QMD chapter parser (ChapterParser),  *)
(* the equation rendering loop (EquationRenderer.render_all) and the slide *)
(* layout loop of convert_chapter_to_slides.                               *)
(*                                                                         *)
(* A text is a sequence of one-character strings.  Offsets are Python's:   *)
(* 0-based, and a slice s[a:b] holds the characters at offsets a .. b-1.   *)
(***************************************************************************)
EXTENDS Integers, Sequences, FiniteSets, TLC

NL == "\n"
SP == " "
DOLLAR == "$"
HASH == "#"

\* The whitespace str.strip() removes, within the alphabet of the model.
Whitespace == {SP, NL}

\* ------------------------------------------------------------------------
\* Python string primitives.

\* s[i] for a 0-based offset i
At(s, i) == s[i + 1]

\* s[a:b] with Python's clamping of the bounds
Slice(s, a, b) ==
  LET lo == IF a < 0 THEN 0 ELSE a
      hi == IF b > Len(s) THEN Len(s) ELSE b
  IN IF lo >= hi THEN << >> ELSE SubSeq(s, lo + 1, hi)

\* s.startswith(p)
StartsWith(s, p) == Len(p) <= Len(s) /\ SubSeq(s, 1, Len(p)) = p

\* the text at offset i starts with p
StartsWithAt(s, i, p) ==
  i + Len(p) <= Len(s) /\ SubSeq(s, i + 1, i + Len(p)) = p

RECURSIVE LStripChars(_, _)
\* s.lstrip(chars): drop every leading character that is in chars
LStripChars(s, chars) ==
  IF s = << >> \/ s[1] \notin chars THEN s
  ELSE LStripChars(Tail(s), chars)

RECURSIVE RStripChars(_, _)
\* s.rstrip(chars)
RStripChars(s, chars) ==
  IF s = << >> \/ s[Len(s)] \notin chars THEN s
  ELSE RStripChars(SubSeq(s, 1, Len(s) - 1), chars)

\* s.strip()
Strip(s) == RStripChars(LStripChars(s, Whitespace), Whitespace)

RECURSIVE FindFrom(_, _, _)
\* the lowest offset >= i at which sub occurs in s, or -1
FindFrom(s, sub, i) ==
  IF i + Len(sub) > Len(s) THEN -1
  ELSE IF StartsWithAt(s, i, sub) THEN i
  ELSE FindFrom(s, sub, i + 1)

\* s.find(sub)
Find(s, sub) == FindFrom(s, sub, 0)

RECURSIVE SplitFrom(_, _, _)
\* the pieces of s[i:] between occurrences of the character sep
SplitFrom(s, sep, i) ==
  LET j == FindFrom(s, <<sep>>, i)
  IN IF j = -1 THEN << Slice(s, i, Len(s)) >>
     ELSE << Slice(s, i, j) >> \o SplitFrom(s, sep, j + 1)

\* s.split('\n')
SplitLines(s) == SplitFrom(s, NL, 0)

\* ------------------------------------------------------------------------
\* Regular-expression anchors (re.MULTILINE).

\* ^ : the start of the text or just after a newline
AtLineStart(s, i) == i = 0 \/ (i <= Len(s) /\ At(s, i - 1) = NL)

\* $ : the end of the text or just before a newline
AtLineEnd(s, i) == i = Len(s) \/ (i < Len(s) /\ At(s, i) = NL)

RECURSIVE LineEnd(_, _)
\* the first offset >= i where $ matches
LineEnd(s, i) == IF AtLineEnd(s, i) THEN i ELSE LineEnd(s, i + 1)

\* ------------------------------------------------------------------------
\* ChapterParser.extract_title

\* r'^# (.+?)(?:\{|$)' matches at offset p: "# " at a line start, then at
\* least one character of the line
TitleMatchAt(s, p) ==
  /\ AtLineStart(s, p)
  /\ StartsWithAt(s, p, <<HASH, SP>>)
  /\ p + 2 < Len(s)
  /\ At(s, p + 2) # NL

RECURSIVE TitleGroupEnd(_, _)
\* the lazy group (.+?) ends at the first offset k where a brace follows or
\* the line ends
TitleGroupEnd(s, k) ==
  IF AtLineEnd(s, k) \/ At(s, k) = "{" THEN k ELSE TitleGroupEnd(s, k + 1)

RECURSIVE TitleSearch(_, _)
\* re.search: the lowest offset >= p where the pattern matches, or -1
TitleSearch(s, p) ==
  IF p >= Len(s) THEN -1
  ELSE IF TitleMatchAt(s, p) THEN p
  ELSE TitleSearch(s, p + 1)

Untitled == <<"U", "n", "t", "i", "t", "l", "e", "d">>

extract_title(s) ==
  LET p == TitleSearch(s, 0)
  IN IF p = -1 THEN Untitled
     ELSE Strip(Slice(s, p + 2, TitleGroupEnd(s, p + 3)))

\* ------------------------------------------------------------------------
\* ChapterParser._extract_subsections

\* the number of # of r'^(###|####) (.+?)$' matching at offset p, or 0
SubsectionLevelAt(s, p) ==
  IF ~AtLineStart(s, p) THEN 0
  ELSE IF /\ StartsWithAt(s, p, <<HASH, HASH, HASH, SP>>)
          /\ p + 4 < Len(s) /\ At(s, p + 4) # NL THEN 3
  ELSE IF /\ StartsWithAt(s, p, <<HASH, HASH, HASH, HASH, SP>>)
          /\ p + 5 < Len(s) /\ At(s, p + 5) # NL THEN 4
  ELSE 0

RECURSIVE SubsectionMatches(_, _)
\* list(re.finditer(pattern, content, re.MULTILINE)), scanning from p
SubsectionMatches(s, p) ==
  IF p >= Len(s) THEN << >>
  ELSE LET lv == SubsectionLevelAt(s, p)
       IN IF lv = 0 THEN SubsectionMatches(s, p + 1)
          ELSE LET e == LineEnd(s, p + lv + 2)
               IN << [start |-> p, end |-> e, level |-> lv,
                      group |-> Slice(s, p + lv + 1, e)] >>
                  \o SubsectionMatches(s, e)

\* where the body of match i stops: the next match or the end of the text
SubsectionEnd(s, matches, i) ==
  IF i < Len(matches) THEN matches[i + 1].start ELSE Len(s)

_extract_subsections(s) ==
  LET matches == SubsectionMatches(s, 0)
  IN [i \in 1..Len(matches) |->
        [level |-> matches[i].level,
         title |-> Strip(matches[i].group),
         content |-> Strip(Slice(s, matches[i].end,
                                 SubsectionEnd(s, matches, i)))]]

\* ------------------------------------------------------------------------
\* ChapterParser.extract_sections

\* r'^## (.+?)$' matches at offset p
SectionMatchAt(s, p) ==
  /\ AtLineStart(s, p)
  /\ StartsWithAt(s, p, <<HASH, HASH, SP>>)
  /\ p + 3 < Len(s)
  /\ At(s, p + 3) # NL

RECURSIVE SectionMatches(_, _)
\* list(re.finditer(pattern, self.content, re.MULTILINE)), scanning from p
SectionMatches(s, p) ==
  IF p >= Len(s) THEN << >>
  ELSE IF SectionMatchAt(s, p)
       THEN LET e == LineEnd(s, p + 4)
            IN << [start |-> p, end |-> e, group |-> Slice(s, p + 3, e)] >>
               \o SectionMatches(s, e)
       ELSE SectionMatches(s, p + 1)

\* every body running to the end of the file
SectionEndAtFileEnd(s, matches, i) == Len(s)

\* where the body of match i stops: the next match or the end of the file
SectionEnd(s, matches, i) ==
  IF i < Len(matches) THEN matches[i + 1].start ELSE Len(s)

\* the body of match i
SectionContent(s, matches, i) ==
  Strip(Slice(s, matches[i].end, SectionEnd(s, matches, i)))

extract_sections(s) ==
  LET matches == SectionMatches(s, 0)
  IN [i \in 1..Len(matches) |->
        LET body == SectionContent(s, matches, i)
        IN [title |-> Strip(matches[i].group),
            content |-> body,
            subsections |-> _extract_subsections(body)]]

\* ------------------------------------------------------------------------
\* ChapterParser.extract_equations

RECURSIVE RunEnd(_, _, _)
\* the first offset >= i whose character is in stop, or the end of the text
RunEnd(s, i, stop) ==
  IF i >= Len(s) \/ At(s, i) \in stop THEN i ELSE RunEnd(s, i + 1, stop)

\* r'\$\$([^$]+?)\$\$' (re.DOTALL) at offset p: the end of the match, or -1.
\* The body holds no dollar, so it can only stop at the first dollar after
\* its first character.
DisplayMatchEnd(s, p) ==
  IF ~(StartsWithAt(s, p, <<DOLLAR, DOLLAR>>)
        /\ p + 2 < Len(s) /\ At(s, p + 2) # DOLLAR) THEN -1
  ELSE LET q == RunEnd(s, p + 3, {DOLLAR})
       IN IF StartsWithAt(s, q, <<DOLLAR, DOLLAR>>) THEN q + 2 ELSE -1

RECURSIVE DisplayMatches(_, _)
DisplayMatches(s, p) ==
  IF p >= Len(s) THEN << >>
  ELSE LET e == DisplayMatchEnd(s, p)
       IN IF e = -1 THEN DisplayMatches(s, p + 1)
          ELSE << [type |-> "display",
                   latex |-> Strip(Slice(s, p + 2, e - 2)),
                   position |-> p] >>
               \o DisplayMatches(s, e)

\* r'(?<!\$)\$(?!\$)([^$\n]+?)\$(?!\$)' at offset p: the end of the match,
\* or -1
InlineMatchEnd(s, p) ==
  IF ~(/\ p < Len(s) /\ At(s, p) = DOLLAR
       /\ (p = 0 \/ At(s, p - 1) # DOLLAR)
       /\ p + 1 < Len(s) /\ At(s, p + 1) \notin {DOLLAR, NL}) THEN -1
  ELSE LET q == RunEnd(s, p + 2, {DOLLAR, NL})
       IN IF /\ q < Len(s) /\ At(s, q) = DOLLAR
             /\ (q + 1 = Len(s) \/ At(s, q + 1) # DOLLAR)
          THEN q + 1 ELSE -1

RECURSIVE InlineMatches(_, _)
InlineMatches(s, p) ==
  IF p >= Len(s) THEN << >>
  ELSE LET e == InlineMatchEnd(s, p)
       IN IF e = -1 THEN InlineMatches(s, p + 1)
          ELSE << [type |-> "inline",
                   latex |-> Strip(Slice(s, p + 1, e - 1)),
                   position |-> p] >>
               \o InlineMatches(s, e)

RECURSIVE InsertByPosition(_, _)
\* insert e after every record whose position is not larger (a stable sort)
InsertByPosition(sorted, e) ==
  IF sorted = << >> THEN << e >>
  ELSE IF sorted[Len(sorted)].position <= e.position THEN Append(sorted, e)
  ELSE Append(InsertByPosition(SubSeq(sorted, 1, Len(sorted) - 1), e),
              sorted[Len(sorted)])

RECURSIVE SortByPosition(_)
\* equations.sort(key=lambda x: x['position'])
SortByPosition(eqs) ==
  IF eqs = << >> THEN << >>
  ELSE InsertByPosition(SortByPosition(SubSeq(eqs, 1, Len(eqs) - 1)),
                        eqs[Len(eqs)])

\* the two passes one after the other, left unsorted
extract_equations_unsorted(s) == DisplayMatches(s, 0) \o InlineMatches(s, 0)

extract_equations(s) ==
  SortByPosition(DisplayMatches(s, 0) \o InlineMatches(s, 0))

\* ------------------------------------------------------------------------
\* Bullet derivation (convert_chapter_to_slides, the loop over the lines of
\* section['content']).

\* the argument of line.startswith((...))
BulletPrefixes ==
  { <<"-">>, <<"*">>, <<"1", ".">>, <<"2", ".">>, <<"3", ".">>,
    <<"4", ".">>, <<"5", ".">> }

\* the argument of line.lstrip('-*0123456789. ')
BulletStripChars ==
  {"-", "*", "0", "1", "2", "3", "4", "5", "6", "7", "8", "9", ".", SP}

IsBulletLine(line) == \E p \in BulletPrefixes : StartsWith(line, p)

BulletText(line) == LStripChars(line, BulletStripChars)

RECURSIVE BulletsOfLines(_)
BulletsOfLines(lines) ==
  IF lines = << >> THEN << >>
  ELSE LET line == Strip(Head(lines))
       IN (IF IsBulletLine(line) THEN << BulletText(line) >> ELSE << >>)
          \o BulletsOfLines(Tail(lines))

\* the part of a section body above its first ### or #### heading
OwnPart(body) ==
  LET m == SubsectionMatches(body, 0)
  IN IF m = << >> THEN body ELSE Slice(body, 0, m[1].start)

\* bullets of the lines above the first subsection heading only
DeriveOwnBullets(body) == BulletsOfLines(SplitLines(OwnPart(body)))

DeriveBullets(body) == BulletsOfLines(SplitLines(body))

\* ------------------------------------------------------------------------
\* EquationRenderer.render_all: the file name of equation i.

DigitChars == <<"0", "1", "2", "3", "4", "5", "6", "7", "8", "9">>

RECURSIVE Decimal(_)
\* the decimal digits of n >= 0
Decimal(n) ==
  IF n < 10 THEN << DigitChars[n + 1] >>
  ELSE Append(Decimal(n \div 10), DigitChars[(n % 10) + 1])

RECURSIVE ZeroPad(_, _)
\* pad on the left with zeros up to a width
ZeroPad(digits, width) ==
  IF Len(digits) >= width THEN digits ELSE ZeroPad(<<"0">> \o digits, width)

FilenameWidth == 3

\* the name without the zero padding, f"equation_{i}.png"
FilenameUnpadded(i) == <<"equation_">> \o Decimal(i) \o <<".png">>

\* f"equation_{i:03d}.png"
Filename(i) ==
  <<"equation_">> \o ZeroPad(Decimal(i), FilenameWidth) \o <<".png">>

\* ------------------------------------------------------------------------
\* convert_chapter_to_slides: the equations of one section.

MarkerLen == 100
MaxSectionEquations == 3
MaxBullets == 5
MaxImages == 2

\* parser.content.find(section['content'][:100])
LocateSection(text, body) == Find(text, Slice(body, 0, MarkerLen))

\* the cursor left where it is
AdvanceCursorStuck(idx) == idx

\* the cursor moved twice for one equation
AdvanceCursorTwice(idx) == idx + 2

\* eq_index += 1
AdvanceCursor(idx) == idx + 1

RECURSIVE SectionEquationsLoop(_, _, _, _, _, _)
\* The loop "for i, eq in enumerate(equations)" from its iteration i (1-based
\* here), with the cursor at idx and acc collected so far.  raised: the
\* lookup equation_images[eq_index] found no such key.
SectionEquationsLoop(eqs, located, images, i, idx, acc) ==
  IF i > Len(eqs)
  THEN [eq_index |-> idx, section_equations |-> acc, raised |-> FALSE]
  ELSE IF eqs[i].position > located
  THEN IF idx < Cardinality(DOMAIN images)
       THEN IF idx \notin DOMAIN images
            THEN [eq_index |-> idx, section_equations |-> acc,
                  raised |-> TRUE]
            ELSE LET acc2 == Append(acc, images[idx])
                 IN IF Len(acc2) >= MaxSectionEquations
                    THEN [eq_index |-> AdvanceCursor(idx),
                          section_equations |-> acc2,
                          raised |-> FALSE]
                    ELSE SectionEquationsLoop(eqs, located, images, i + 1,
                                              AdvanceCursor(idx), acc2)
       ELSE IF Len(acc) >= MaxSectionEquations
            THEN [eq_index |-> idx, section_equations |-> acc,
                  raised |-> FALSE]
            ELSE SectionEquationsLoop(eqs, located, images, i + 1, idx, acc)
  ELSE SectionEquationsLoop(eqs, located, images, i + 1, idx, acc)

\* "if bullets or section_equations:"
ContentSlideWanted(bul, sec_eqs) == bul # << >> \/ sec_eqs # << >>

\* bullets[:5]
SlideBullets(bul) == Slice(bul, 0, MaxBullets)

\* section_equations[:2]
SlideImages(sec_eqs) == Slice(sec_eqs, 0, MaxImages)

\* The slide descriptors handed to SlideBuilder.
TitleSlide(t) ==
  [kind |-> "Title", title |-> t, bullets |-> << >>,
   equation_images |-> << >>]

SectionSlide(t) ==
  [kind |-> "SectionHeader", title |-> t, bullets |-> << >>,
   equation_images |-> << >>]

ContentSlide(t, bul, imgs) ==
  [kind |-> "Content", title |-> t, bullets |-> bul,
   equation_images |-> imgs]

\* ------------------------------------------------------------------------
\* The chapters the model reads: up to MaxLines lines, each one of
\* ChapterLines, joined by newlines.

MaxLines == 4

RECURSIVE JoinLines(_)
JoinLines(ls) ==
  IF ls = << >> THEN << >>
  ELSE IF Len(ls) = 1 THEN ls[1]
  ELSE ls[1] \o <<NL>> \o JoinLines(Tail(ls))

SeqsUpTo(S, n) == UNION { [1..k -> S] : k \in 0..n }

ChapterLines ==
  { <<"#", " ", "T", " ", "{", "a", "}">>,
    <<"#", "#", " ", "A">>,
    <<"#", "#", " ", "B">>,
    <<"#", "#", "#", " ", "S">>,
    <<"-", " ", "a", NL, "*", " ", "b", NL, "1", ".", " ", "c">>,
    <<"$", "a", "$", " ", "$", "b", "$">>,
    <<"t">> }

ChapterDocs == { JoinLines(ls) : ls \in SeqsUpTo(ChapterLines, MaxLines) }

\* At most MaxFail render_equation calls of one run fail.
MaxFail == 2

\* ------------------------------------------------------------------------
\* State.

VARIABLES
  pc,            \* where the run is
  error,         \* why it stopped early, "" while it has not
  content,       \* parser.content
  title,         \* extract_title()
  sections,      \* extract_sections()
  equations,     \* extract_equations()
  render_i,      \* render_all: the number of equations handled so far
  attempts,      \* render_all: the indices given to render_equation, in order
  failed,        \* render_all: the indices for which it returned None
  rendered,      \* render_all: the dict index -> path
  slides,        \* the slides added to the SlideBuilder, in order
  eq_index,      \* the running cursor of the section loop
  sec_i,         \* the number of sections whose iteration has begun
  bullets,       \* the list bullets of the latest derivation
  log            \* per begun section: its iteration's locals

vars ==
  <<pc, error, content, title, sections, equations, render_i, attempts,
    failed, rendered, slides, eq_index, sec_i, bullets, log>>

parsed == <<content, title, sections, equations>>
rendering == <<render_i, attempts, failed, rendered>>
layout == <<slides, eq_index, sec_i, bullets, log>>

Init ==
  /\ pc = "main"
  /\ error = ""
  /\ content = << >>
  /\ title = << >>
  /\ sections = << >>
  /\ equations = << >>
  /\ render_i = 0
  /\ attempts = << >>
  /\ failed = {}
  /\ rendered = << >>
  /\ slides = << >>
  /\ eq_index = 0
  /\ sec_i = 0
  /\ bullets = << >>
  /\ log = << >>

\* ------------------------------------------------------------------------
\* Setup.

\* python-pptx or matplotlib cannot be imported: sys.exit(1)
ImportFails ==
  /\ pc = "main"
  /\ pc' = "exit"
  /\ error' = "ImportError"
  /\ UNCHANGED <<parsed, rendering, layout>>

\* main: the input file does not exist: sys.exit(1)
FileNotFound ==
  /\ pc = "main"
  /\ pc' = "exit"
  /\ error' = "FileNotFound"
  /\ UNCHANGED <<parsed, rendering, layout>>

\* ChapterParser(qmd_file) reads the file d; title, sections and equations
\* are extracted from it.
ParseChapter ==
  /\ pc = "main"
  /\ \E d \in ChapterDocs :
       /\ content' = d
       /\ title' = extract_title(d)
       /\ sections' = extract_sections(d)
       /\ equations' = extract_equations(d)
  /\ pc' = "render"
  /\ UNCHANGED <<error, rendering, layout>>

\* ------------------------------------------------------------------------
\* EquationRenderer.render_all, one iteration of its loop per step.

\* the dict after "rendered[i] = path"
StorePath(images, i, path) == (i :> path) @@ images

\* render_equation returns output_dir / filename
RenderEquationOk ==
  /\ pc = "render"
  /\ render_i < Len(equations)
  /\ attempts' = Append(attempts, render_i)
  /\ rendered' = StorePath(rendered, render_i, Filename(render_i))
  /\ render_i' = render_i + 1
  /\ UNCHANGED <<pc, error, parsed, failed, layout>>

\* render_equation catches the exception and returns None
RenderEquationFails ==
  /\ pc = "render"
  /\ render_i < Len(equations)
  /\ Cardinality(failed) < MaxFail
  /\ attempts' = Append(attempts, render_i)
  /\ failed' = failed \cup {render_i}
  /\ render_i' = render_i + 1
  /\ UNCHANGED <<pc, error, parsed, rendered, layout>>

\* ------------------------------------------------------------------------
\* convert_chapter_to_slides: building the presentation.

\* render_all has returned; builder.add_title_slide(title); eq_index = 0
AddTitleSlide ==
  /\ pc = "render"
  /\ render_i = Len(equations)
  /\ slides' = Append(slides, TitleSlide(title))
  /\ eq_index' = 0
  /\ pc' = "sections"
  /\ UNCHANGED <<error, parsed, rendering, sec_i, bullets, log>>

\* The locals of the iteration for section number k (1-based) of
\* "for section in sections", with the cursor where it stands.
SectionLocals(k) ==
  LET section == sections[k]
      bul == DeriveBullets(section.content)
      located == LocateSection(content, section.content)
      r == SectionEquationsLoop(equations, located, rendered, 1,
                                eq_index, << >>)
  IN [bullets |-> bul,
      section_equations |-> r.section_equations,
      located |-> located,
      eq_index_before |-> eq_index,
      eq_index_after |-> r.eq_index,
      raised |-> r.raised]

\* the slides one completed iteration adds
SectionSlides(t, bul, sec_eqs) ==
  << SectionSlide(t) >>
  \o (IF ContentSlideWanted(bul, sec_eqs)
      THEN << ContentSlide(t, SlideBullets(bul), SlideImages(sec_eqs)) >>
      ELSE << >>)

\* One iteration of "for section in sections" that runs to its end.
ProcessSection ==
  /\ pc = "sections"
  /\ sec_i < Len(sections)
  /\ LET locals == SectionLocals(sec_i + 1)
     IN /\ ~locals.raised
        /\ sec_i' = sec_i + 1
        /\ bullets' = locals.bullets
        /\ eq_index' = locals.eq_index_after
        /\ log' = Append(log, locals)
        /\ slides' = slides \o SectionSlides(sections[sec_i + 1].title,
                                             locals.bullets,
                                             locals.section_equations)
  /\ UNCHANGED <<pc, error, parsed, rendering>>

\* One iteration in which equation_images[eq_index] raises KeyError: the
\* section slide is there, the exception leaves convert_chapter_to_slides.
SectionRaises ==
  /\ pc = "sections"
  /\ sec_i < Len(sections)
  /\ LET locals == SectionLocals(sec_i + 1)
     IN /\ locals.raised
        /\ sec_i' = sec_i + 1
        /\ bullets' = locals.bullets
        /\ eq_index' = locals.eq_index_after
        /\ log' = Append(log, locals)
        /\ slides' = Append(slides, SectionSlide(sections[sec_i + 1].title))
  /\ pc' = "raised"
  /\ error' = "KeyError"
  /\ UNCHANGED <<parsed, rendering>>

\* builder.save(output_file); return output_file
Save ==
  /\ pc = "sections"
  /\ sec_i = Len(sections)
  /\ pc' = "done"
  /\ UNCHANGED <<error, parsed, rendering, layout>>

Next ==
  \/ ImportFails
  \/ FileNotFound
  \/ ParseChapter
  \/ RenderEquationOk
  \/ RenderEquationFails
  \/ AddTitleSlide
  \/ ProcessSection
  \/ SectionRaises
  \/ Save

Spec == Init /\ [][Next]_vars

\* ------------------------------------------------------------------------
\* extract_sections on its own: the texts of up to MaxSecLines lines, each
\* one of SectionLines.

MaxSecLines == 4

SectionLines ==
  { <<"#", "#", " ", "A">>,
    <<"#", "#", " ", "B">>,
    <<"#", "#", "#", " ", "S">>,
    << >>,
    <<" ", "x">>,
    <<"x">> }

SectionDocs == { JoinLines(ls) : ls \in SeqsUpTo(SectionLines, MaxSecLines) }

Idle ==
  /\ error = ""
  /\ title = << >>
  /\ render_i = 0
  /\ attempts = << >>
  /\ failed = {}
  /\ rendered = << >>
  /\ slides = << >>
  /\ eq_index = 0
  /\ sec_i = 0
  /\ log = << >>

InitSections ==
  /\ pc = "extract_sections"
  /\ content \in SectionDocs
  /\ sections = << >>
  /\ equations = << >>
  /\ bullets = << >>
  /\ Idle

\* sections = parser.extract_sections()
ExtractSections ==
  /\ pc = "extract_sections"
  /\ sections' = extract_sections(content)
  /\ pc' = "done"
  /\ UNCHANGED <<error, content, title, equations, rendering, layout>>

SpecSections == InitSections /\ [][ExtractSections]_vars

\* ------------------------------------------------------------------------
\* extract_equations on its own: the texts made of up to MaxEqPieces pieces,
\* each one of EquationPieces, put end to end.

MaxEqPieces == 4

EquationPieces ==
  { <<"$">>, <<"$", "$">>, <<"x">>, <<SP>>, <<NL>>,
    <<"$", "x", "$">>,
    <<"$", " ", "x", " ", "$">>,
    <<"$", "$", "y", "$", "$">> }

RECURSIVE Concat(_)
Concat(ps) == IF ps = << >> THEN << >> ELSE ps[1] \o Concat(Tail(ps))

EquationDocs == { Concat(ps) : ps \in SeqsUpTo(EquationPieces, MaxEqPieces) }

InitEquations ==
  /\ pc = "extract_equations"
  /\ content \in EquationDocs
  /\ sections = << >>
  /\ equations = << >>
  /\ bullets = << >>
  /\ Idle

\* equations = parser.extract_equations()
ExtractEquations ==
  /\ pc = "extract_equations"
  /\ equations' = extract_equations(content)
  /\ pc' = "done"
  /\ UNCHANGED <<error, content, title, sections, rendering, layout>>

SpecEquations == InitEquations /\ [][ExtractEquations]_vars

\* ------------------------------------------------------------------------
\* Bullet derivation on its own: one section whose body is any text of up
\* to MaxBodyLen characters of BulletAlphabet, or the body of the example.

MaxBodyLen == 4

BulletAlphabet == {"-", "*", "1", "6", ".", SP, NL, "a"}

ExampleBody ==
  <<"-", " ", "a", NL, "-", " ", "b", NL,
    "s", "o", "m", "e", " ", "t", "e", "x", "t", NL, "*", " ", "c">>

BulletBodies == SeqsUpTo(BulletAlphabet, MaxBodyLen) \cup {ExampleBody}

InitBullets ==
  /\ pc = "bullets"
  /\ content = << >>
  /\ \E body \in BulletBodies :
       sections = << [title |-> <<"A">>, content |-> body,
                      subsections |-> _extract_subsections(body)] >>
  /\ equations = << >>
  /\ bullets = << >>
  /\ Idle

\* the loop "for line in section['content'].split('\n')" of the section
DeriveSectionBullets ==
  /\ pc = "bullets"
  /\ bullets' = DeriveBullets(sections[1].content)
  /\ pc' = "done"
  /\ UNCHANGED <<error, parsed, rendering, slides, eq_index, sec_i, log>>

SpecBullets == InitBullets /\ [][DeriveSectionBullets]_vars

\* ------------------------------------------------------------------------
\* Claims.

\* C1: whichever renders fail, convert_chapter_to_slides runs to the save
\* step; a run stops early only for a setup error (a missing import, a
\* missing input file), never because the section loop raises.
C1_OnlySetupErrorsStopTheRun ==
  /\ error \in {"", "ImportError", "FileNotFound"}
  /\ pc # "raised"

\* the name "equation_" + three decimal digits + ".png" of an index below 1000
ThreeDigitName(i) ==
  << "equation_", DigitChars[(i \div 100) + 1],
     DigitChars[((i \div 10) % 10) + 1], DigitChars[(i % 10) + 1], ".png" >>

\* C2: render_all gives render_equation each index 0..n-1 once, in input
\* order, and comes to its end; the keys of the mapping are the indices
\* whose render did not fail, and key i maps to equation_<i, three
\* digits>.png, a name that depends on i alone.
C2_RenderAllMapping ==
  /\ attempts = [k \in 1..render_i |-> k - 1]
  /\ render_i <= Len(equations)
  /\ failed \subseteq 0..(render_i - 1)
  /\ DOMAIN rendered = (0..(render_i - 1)) \ failed
  /\ \A i \in DOMAIN rendered : rendered[i] = ThreeDigitName(i)
  /\ pc \in {"sections", "done", "raised"} => render_i = Len(equations)

\* C2 witness: a batch of four equations is through, the render of index 2
\* failed and the other three are in the mapping.
C2_Witness ==
  /\ pc = "sections"
  /\ Len(equations) = 4
  /\ failed = {2}
  /\ DOMAIN rendered = {0, 1, 3}

\* --- the slides of one section

\* where the section headers stand among the slides
HeaderPositions == { p \in 1..Len(slides) : slides[p].kind = "SectionHeader" }

\* the place of the header of section number k
HeaderPos(k) ==
  CHOOSE p \in HeaderPositions :
    Cardinality({ q \in HeaderPositions : q <= p }) = k

\* section number k has a Content descriptor after its header
HasContent(k) ==
  /\ HeaderPos(k) < Len(slides)
  /\ slides[HeaderPos(k) + 1].kind = "Content"

\* the first n entries of seq, said without slicing
IsFirstN(part, seq, n) ==
  /\ Len(part) = (IF Len(seq) < n THEN Len(seq) ELSE n)
  /\ \A j \in 1..Len(part) : part[j] = seq[j]

\* no line of the text is a ## heading
NoSectionHeading(text) ==
  \A j \in 1..Len(SplitLines(text)) :
    LET line == SplitLines(text)[j]
    IN ~(Len(line) > 3 /\ SubSeq(line, 1, 3) = <<HASH, HASH, SP>>)

\* the slides are the Title descriptor, then for each of the first n
\* sections its SectionHeader, each Content descriptor standing right after
\* the header whose title it carries
ShapeForSections(n) ==
  /\ Len(slides) >= 1
  /\ slides[1] = TitleSlide(title)
  /\ \A p \in 2..Len(slides) : slides[p].kind \in {"SectionHeader", "Content"}
  /\ Cardinality(HeaderPositions) = n
  /\ \A k \in 1..n :
       slides[HeaderPos(k)] = SectionSlide(sections[k].title)
  /\ \A p \in 2..Len(slides) :
       slides[p].kind = "Content" =>
         /\ slides[p - 1].kind = "SectionHeader"
         /\ slides[p].title = slides[p - 1].title
         /\ Len(slides[p].bullets) <= 5
         /\ Len(slides[p].equation_images) <= 2

\* C3: the slides of a run that has ended are one Title descriptor, then
\* for every extracted section in document order one SectionHeader with
\* its title, each followed by at most one Content descriptor (same title,
\* at most 5 bullets, at most 2 images); with no ## heading the section
\* list is empty and the Title descriptor stands alone.
C3_SlideSequenceShape ==
  pc \in {"done", "raised"} =>
    /\ ShapeForSections(Len(sections))
    /\ NoSectionHeading(content) =>
         sections = << >> /\ slides = << TitleSlide(title) >>

\* What does hold of the slides, in every state: the shape above for the
\* sections whose iteration has begun, and for all of them once saved.
SlideShapeSoFar ==
  /\ pc \in {"main", "render", "exit"} => slides = << >>
  /\ pc \in {"sections", "done", "raised"} => ShapeForSections(sec_i)
  /\ pc = "done" => sec_i = Len(sections)
  /\ NoSectionHeading(content) => sections = << >>

\* --- the equations of the sections

\* the indices of the equations whose rendering the file path is
ImageIndices(path) ==
  { i \in 0..(Len(equations) - 1) : ThreeDigitName(i) = path }

\* C4: over the whole section loop no equation image is collected by two
\* sections, the images are collected in document order (an earlier
\* section's indices are all below a later section's, and within a section
\* they rise), and no section collects more than 3.
C4_EachEquationInOneSection ==
  /\ \A k \in 1..Len(log) :
       /\ Len(log[k].section_equations) <= 3
       /\ \A a \in 1..Len(log[k].section_equations) :
            ImageIndices(log[k].section_equations[a]) # {}
  /\ \A j, k \in 1..Len(log) :
       \A a \in 1..Len(log[j].section_equations) :
         \A b \in 1..Len(log[k].section_equations) :
           (j < k \/ (j = k /\ a < b)) =>
             /\ log[j].section_equations[a] # log[k].section_equations[b]
             /\ \A x \in ImageIndices(log[j].section_equations[a]) :
                  \A y \in ImageIndices(log[k].section_equations[b]) : x < y

\* C4 witness: the first section stopped at 3 equations and the second one
\* collected a later equation.
C4_Witness ==
  /\ Len(log) >= 2
  /\ Len(log[1].section_equations) = 3
  /\ log[2].section_equations # << >>
  /\ log[2].eq_index_before = 3

\* C5: every equation image on a section's Content descriptor renders an
\* equation whose offset is greater than the located offset of the section
\* body; no equation standing before the body is placed on it.
C5_ImagesFollowSectionBody ==
  \A k \in 1..Len(log) :
    ~log[k].raised =>
      \A a \in 1..Len(SlideImages(log[k].section_equations)) :
        \A i \in ImageIndices(log[k].section_equations[a]) :
          equations[i + 1].position > log[k].located

\* C6: every section has a Content descriptor exactly if it has a derived
\* bullet or an associated equation; the descriptor's bullets are the first
\* 5 derived bullets and its images the first 2 collected equations;
\* otherwise the SectionHeader stands alone.
C6_ContentIffBulletsOrEquations ==
  \A k \in 1..Len(log) :
    /\ HasContent(k) <=>
         (log[k].bullets # << >> \/ log[k].section_equations # << >>)
    /\ HasContent(k) =>
         LET slide == slides[HeaderPos(k) + 1]
         IN /\ IsFirstN(slide.bullets, log[k].bullets, 5)
            /\ IsFirstN(slide.equation_images, log[k].section_equations, 2)

\* What does hold: the same of every section whose iteration came to its
\* end.
ContentOfCompletedSections ==
  \A k \in 1..Len(log) :
    ~log[k].raised =>
      /\ HasContent(k) <=>
           (log[k].bullets # << >> \/ log[k].section_equations # << >>)
      /\ HasContent(k) =>
           LET slide == slides[HeaderPos(k) + 1]
           IN /\ IsFirstN(slide.bullets, log[k].bullets, 5)
              /\ IsFirstN(slide.equation_images,
                          log[k].section_equations, 2)

\* --- bullets and subsections

RECURSIVE SubsectionBullets(_, _)
\* the bullets of the bodies of the subsections from number j on
SubsectionBullets(subs, j) ==
  IF j > Len(subs) THEN << >>
  ELSE DeriveBullets(subs[j].content) \o SubsectionBullets(subs, j + 1)

\* C8 as stated: a section's bullets come from the lines of its own body
\* alone; a bullet line under a ### or #### heading gives it no bullet.
C8_BulletsFromOwnBodyOnly ==
  \A k \in 1..Len(log) :
    log[k].bullets = DeriveBullets(OwnPart(sections[k].content))

\* C8 as amended: a section's bullets come from every line between its ##
\* heading and the next one: the bullets of the lines above its first
\* subsection heading, then those of each subsection's body, in order.
C8_BulletsFromWholeBody ==
  \A k \in 1..Len(log) :
    log[k].bullets =
      DeriveBullets(OwnPart(sections[k].content))
      \o SubsectionBullets(sections[k].subsections, 1)

\* C8 witness: a section whose subsection holds bullet lines has been
\* through the loop, and these bullets are among its own.
C8_Witness ==
  \E k \in 1..Len(log) :
    /\ sections[k].subsections # << >>
    /\ SubsectionBullets(sections[k].subsections, 1) # << >>
    /\ Len(log[k].bullets) >=
         Len(SubsectionBullets(sections[k].subsections, 1))

\* --- bullet derivation

\* the lines of a body, each trimmed
TrimmedLines(body) ==
  [j \in 1..Len(SplitLines(body)) |-> Strip(SplitLines(body)[j])]

\* the trimmed lines that start with a dash, an asterisk or 1. to 5.
BulletLines(body) == SelectSeq(TrimmedLines(body), IsBulletLine)

\* the prefix a bullet line starts with
MatchedPrefix(line) == CHOOSE p \in BulletPrefixes : StartsWith(line, p)

\* the line after its matched prefix
AfterPrefix(line) ==
  SubSeq(line, Len(MatchedPrefix(line)) + 1, Len(line))

\* C7: bullet derivation gives, in body order, one bullet for each line
\* that after trimming starts with a dash, an asterisk or 1. to 5.; the
\* bullet is that line without the matched prefix (and the blank after it),
\* the rest of the line unchanged; every other line is dropped.
C7_BulletsStripOnlyThePrefix ==
  pc = "done" =>
    LET lines == BulletLines(sections[1].content)
    IN /\ Len(bullets) = Len(lines)
       /\ \A j \in 1..Len(lines) :
            bullets[j] \in { AfterPrefix(lines[j]),
                             LStripChars(AfterPrefix(lines[j]), Whitespace) }

\* What does hold: one bullet per such line, in body order, each bullet a
\* tail of its line that holds none of the characters of "-*0123456789. "
\* at its start, and the line before that tail made of those characters
\* alone.
BulletsOnePerBulletLine ==
  pc = "done" =>
    LET lines == BulletLines(sections[1].content)
    IN /\ Len(bullets) = Len(lines)
       /\ \A j \in 1..Len(lines) :
            LET cut == Len(lines[j]) - Len(bullets[j])
            IN /\ cut >= 1
               /\ bullets[j] = SubSeq(lines[j], cut + 1, Len(lines[j]))
               /\ \A c \in 1..cut : lines[j][c] \in BulletStripChars
               /\ bullets[j] # << >> => bullets[j][1] \notin BulletStripChars

\* --- section bodies

\* a ## heading starts at offset p of the text
IsHeadingAt(text, p) ==
  /\ p = 0 \/ text[p] = NL
  /\ p + 4 <= Len(text)
  /\ text[p + 1] = HASH /\ text[p + 2] = HASH /\ text[p + 3] = SP
  /\ text[p + 4] # NL

HeadingStarts(text) == { p \in 0..Len(text) : IsHeadingAt(text, p) }

\* the start of heading number k, in document order
NthHeading(text, k) ==
  CHOOSE p \in HeadingStarts(text) :
    Cardinality({ q \in HeadingStarts(text) : q < p }) = k - 1

\* the offset at which the line holding offset p ends
EndOfLine(text, p) ==
  CHOOSE e \in p..Len(text) :
    /\ e = Len(text) \/ text[e + 1] = NL
    /\ \A f \in p..(e - 1) : text[f + 1] # NL

\* the text between the heading line of section k and the next heading
\* (the end of the text for the last section)
RawSpan(text, k) ==
  Slice(text, EndOfLine(text, NthHeading(text, k)),
        IF k < Cardinality(HeadingStarts(text))
        THEN NthHeading(text, k + 1) ELSE Len(text))

\* t is raw without the whitespace at its two ends
IsTrimOf(t, raw) ==
  \E a \in 0..Len(raw) :
    /\ a + Len(t) <= Len(raw)
    /\ t = Slice(raw, a, a + Len(t))
    /\ \A j \in 1..a : raw[j] \in Whitespace
    /\ \A j \in (a + Len(t) + 1)..Len(raw) : raw[j] \in Whitespace
    /\ t # << >> => t[1] \notin Whitespace /\ t[Len(t)] \notin Whitespace

\* raw without the line break that ends the heading line before it and
\* without the line break before the heading after it
WithoutLineBreaks(raw) ==
  LET r1 == IF raw # << >> /\ raw[1] = NL THEN Tail(raw) ELSE raw
  IN IF r1 # << >> /\ r1[Len(r1)] = NL
     THEN SubSeq(r1, 1, Len(r1) - 1) ELSE r1

\* C9 as stated: the bodies partition the text after the first ## heading:
\* each body is the whole text between its heading line and the next
\* heading, no character of it lost.
C9_BodiesPartitionTheText ==
  pc = "done" =>
    /\ Len(sections) = Cardinality(HeadingStarts(content))
    /\ \A k \in 1..Len(sections) :
         sections[k].content = WithoutLineBreaks(RawSpan(content, k))

\* C9 as amended: there is one body per ## heading, in document order; the
\* spans between a heading line and the next heading do not overlap, and
\* each body is its span without the whitespace at the span's two ends, so
\* that only whitespace is lost between one heading and the next (and the
\* text before the first heading).
C9_BodiesAreTrimmedSpans ==
  pc = "done" =>
    /\ Len(sections) = Cardinality(HeadingStarts(content))
    /\ \A k \in 1..Len(sections) :
         /\ IsTrimOf(sections[k].content, RawSpan(content, k))
         /\ IsTrimOf(sections[k].title,
                     Slice(content, NthHeading(content, k) + 3,
                           EndOfLine(content, NthHeading(content, k))))
         /\ k < Len(sections) =>
              EndOfLine(content, NthHeading(content, k))
                < NthHeading(content, k + 1)

\* C9 witness: two sections were extracted and the body of the first is
\* shorter than its span by more than the two line breaks around it.
C9_Witness ==
  /\ pc = "done"
  /\ Len(sections) = 2
  /\ sections[1].content # << >>
  /\ Len(sections[1].content) + 2 < Len(RawSpan(content, 1))

\* --- equations

\* the text from offset p to e is $$body$$, the body holding no dollar
IsDisplaySpan(text, p, e) ==
  /\ p + 5 <= e /\ e <= Len(text)
  /\ text[p + 1] = DOLLAR /\ text[p + 2] = DOLLAR
  /\ text[e - 1] = DOLLAR /\ text[e] = DOLLAR
  /\ \A j \in (p + 3)..(e - 2) : text[j] # DOLLAR

\* the text from offset p to e is $body$ on one line, the body holding no
\* dollar, with no dollar right before it or right after it
IsInlineSpan(text, p, e) ==
  /\ p + 3 <= e /\ e <= Len(text)
  /\ text[p + 1] = DOLLAR /\ text[e] = DOLLAR
  /\ \A j \in (p + 2)..(e - 1) : text[j] \notin {DOLLAR, NL}
  /\ p = 0 \/ text[p] # DOLLAR
  /\ e = Len(text) \/ text[e + 1] # DOLLAR

IsSpan(text, type, p, e) ==
  IF type = "display" THEN IsDisplaySpan(text, p, e)
  ELSE IsInlineSpan(text, p, e)

DelimiterLen(type) == IF type = "display" THEN 2 ELSE 1

\* the offsets at which the span of record r can end
SpanEnds(text, r) ==
  { e \in 0..Len(text) : IsSpan(text, r.type, r.position, e) }

\* the span of record r without its delimiters
SpanBody(text, r, e) ==
  Slice(text, r.position + DelimiterLen(r.type), e - DelimiterLen(r.type))

\* the records are sorted by offset, each stands on a span of its kind,
\* every span of the text has its record unless it starts inside the span
\* of a record of its kind, and no inline span overlaps a display span
RecordsMatchSpans ==
  /\ \A k \in 1..(Len(equations) - 1) :
       equations[k].position < equations[k + 1].position
  /\ \A k \in 1..Len(equations) :
       /\ equations[k].type \in {"inline", "display"}
       /\ Cardinality(SpanEnds(content, equations[k])) = 1
  /\ \A type \in {"inline", "display"} :
       \A p, e \in 0..Len(content) :
         IsSpan(content, type, p, e) =>
           \E k \in 1..Len(equations) :
             /\ equations[k].type = type
             /\ \/ equations[k].position = p
                \/ \E f \in SpanEnds(content, equations[k]) :
                     equations[k].position < p /\ p < f
  /\ \A j, k \in 1..Len(equations) :
       (equations[j].type = "inline" /\ equations[k].type = "display") =>
         \A ej \in SpanEnds(content, equations[j]) :
           \A ek \in SpanEnds(content, equations[k]) :
             ej <= equations[k].position \/ ek <= equations[j].position

\* C10 as stated: one record per matched span, sorted by offset with the
\* two kinds interleaved, no part of a $$ pair reported as inline, and the
\* LaTeX of a record is its span with the delimiters stripped.
C10_LatexIsTheSpanWithoutDelimiters ==
  pc = "done" =>
    /\ RecordsMatchSpans
    /\ \A k \in 1..Len(equations) :
         \A e \in SpanEnds(content, equations[k]) :
           equations[k].latex = SpanBody(content, equations[k], e)

\* C10 as amended: the same, the LaTeX of a record being its span with the
\* delimiters stripped and the whitespace at its two ends removed.
C10_LatexIsTheTrimmedSpan ==
  pc = "done" =>
    /\ RecordsMatchSpans
    /\ \A k \in 1..Len(equations) :
         \A e \in SpanEnds(content, equations[k]) :
           IsTrimOf(equations[k].latex, SpanBody(content, equations[k], e))

\* C10 witness: an inline equation written with blanks inside its dollars
\* stands before a display equation; the two records come in that order and
\* the LaTeX of the first is shorter than what its dollars enclose.
C10_Witness ==
  /\ pc = "done"
  /\ Len(equations) = 2
  /\ equations[1].type = "inline"
  /\ equations[2].type = "display"
  /\ equations[1].latex = <<"x">>
  /\ equations[2].latex = <<"y">>
  /\ \E e \in SpanEnds(content, equations[1]) :
       Len(SpanBody(content, equations[1], e)) > 1

\* --- the running cursor

RECURSIVE ImagesOnSlides(_)
\* the number of equation images on the first n slides
ImagesOnSlides(n) ==
  IF n = 0 THEN 0
  ELSE ImagesOnSlides(n - 1) + Len(slides[n].equation_images)

\* C11: in the section loop the cursor eq_index starts at 0, never
\* decreases, advances by at most 3 while one section is processed (by one
\* for each equation the section collects) and never exceeds the number of
\* entries of the rendered mapping; so the equation images on all the
\* Content descriptors are at most as many as the rendered equations, and
\* an equation collected as the third of a section has moved the cursor but
\* is on no slide.
C11_CursorBounds ==
  /\ Len(log) = 0 => eq_index = 0
  /\ Len(log) > 0 =>
       /\ log[1].eq_index_before = 0
       /\ eq_index = log[Len(log)].eq_index_after
  /\ \A k \in 1..Len(log) :
       /\ log[k].eq_index_before <= log[k].eq_index_after
       /\ log[k].eq_index_after <= log[k].eq_index_before + 3
       /\ log[k].eq_index_after =
            log[k].eq_index_before + Len(log[k].section_equations)
       /\ k < Len(log) => log[k + 1].eq_index_before = log[k].eq_index_after
  /\ eq_index <= Cardinality(DOMAIN rendered)
  /\ ImagesOnSlides(Len(slides)) <= eq_index
  /\ ImagesOnSlides(Len(slides)) <= Cardinality(DOMAIN rendered)
  /\ \A k \in 1..Len(log) :
       Len(log[k].section_equations) = 3 =>
         \A p \in 1..Len(slides) :
           \A j \in 1..Len(slides[p].equation_images) :
             slides[p].equation_images[j] # log[k].section_equations[3]

\* C11 witness: the run is saved; the first section collected three
\* equations and moved the cursor from 0 to 3, the next one collected the
\* fourth, and the slides carry three images for the four consumed.
C11_Witness ==
  /\ pc = "done"
  /\ Len(log) >= 2
  /\ Len(log[1].section_equations) = 3
  /\ log[1].eq_index_after = 3
  /\ Len(log[2].section_equations) = 1
  /\ eq_index = 4
  /\ ImagesOnSlides(Len(slides)) = 3

====
